---- MODULE Spec2Model ----
(***************************************************************************)
(* Library-management backend (users, books, borrow records, reports,      *)
(* bearer-token authentication).  The repository holds two revisions of    *)
(* the server: src/server.js (document store, mongoose) and                *)
(* src/unnamed/part_000 (relational store, pg).  The variable `variant'    *)
(* says which revision is running; every route is translated from the      *)
(* handler of that revision.                                                *)
(*                                                                         *)
(* Nullable values are sequences: <<>> is null/undefined, <<v>> is v.      *)
(* Times are milliseconds since the epoch of the model.                    *)
(***************************************************************************)
EXTENDS Integers, Sequences, FiniteSets, TLC

VARIABLES variant, now, users, books, borrow_records, stats_history, seq,
          pending, tokens, loggedOut, resp

vars == <<variant, now, users, books, borrow_records, stats_history, seq,
          pending, tokens, loggedOut, resp>>

(***************************************************************************)
(* Bounds of the model.                                                    *)
(***************************************************************************)
MaxUsers == 2
MaxBooks == 1
MaxRecords == 2
MaxTokens == 1
MaxDays == 1
MaxInflight == 2
MaxReportBooks == 11
MaxCount == 2

(***************************************************************************)
(* Program constants.                                                      *)
(***************************************************************************)
MS_PER_DAY == 1000 * 60 * 60 * 24
EXPIRES_IN_S == 60 * 60
FINE_PER_DAY == 1
REPORT_LIMIT == 10

NULL == <<>>
Some(v) == <<v>>
IsNull(x) == x = <<>>
Val(x) == x[1]

Roles == {"student", "admin", "librarian"}
Variants == {"mongo", "pg"}

\* The clock is sampled: the first hour in half-hour steps, then midnights.
ClockStepMs == (EXPIRES_IN_S * 1000) \div 2
TimePoints == {h * ClockStepMs : h \in 0..2} \cup {d * MS_PER_DAY : d \in 1..MaxDays}

(***************************************************************************)
(* bcrypt.  hash(p, 10) is a salted one-way digest of p; compare(p, h)     *)
(* verifies p against the digest and throws when h is not a string.        *)
(***************************************************************************)
bcrypt_hash(p) == <<"$2a$10$", p>>
bcrypt_compare(p, h) == h = bcrypt_hash(p)
DEFAULT_PASSWORD == "password123"

(***************************************************************************)
(* jsonwebtoken.  A lexeme is a piece of an Authorization header: the      *)
(* literal "Bearer ", a signed token, or text that is no token.            *)
(***************************************************************************)
JWT_SECRET == IF variant = "mongo" THEN "process.env.JWT_SECRET" ELSE "secret_key"
OTHER_KEY == "not-the-server-key"

Lexeme(kind, id, role, iat, exp, key) ==
    [kind |-> kind, id |-> id, role |-> role, iat |-> iat, exp |-> exp, key |-> key]
BearerLex == Lexeme("Bearer ", 0, "", 0, 0, "")
JunkLex == Lexeme("junk", 0, "", 0, 0, "")

\* jwt.sign({id, role}, key, {expiresIn: '1h'}) at time t
jwt_sign(id, role, key, t) ==
    Lexeme("jwt", id, role, t \div 1000, (t \div 1000) + EXPIRES_IN_S, key)

\* jwt.verify that does not look at exp
jwt_verify_noExpiry(token, key, t) ==
    /\ Len(token) = 1
    /\ token[1].kind = "jwt"
    /\ token[1].key = key

\* jwt.verify(token, key) at time t: TRUE when it returns the payload
jwt_verify(token, key, t) ==
    /\ Len(token) = 1
    /\ token[1].kind = "jwt"
    /\ token[1].key = key
    /\ ~((t \div 1000) >= token[1].exp)

\* String.prototype.replace('Bearer ', ''): drops the first occurrence only
RECURSIVE replaceBearer(_)
replaceBearer(s) ==
    IF s = <<>> THEN <<>>
    ELSE IF Head(s) = BearerLex THEN Tail(s)
    ELSE <<Head(s)>> \o replaceBearer(Tail(s))

NoHeader == [present |-> FALSE, parts |-> <<>>]
Header(parts) == [present |-> TRUE, parts |-> parts]

Response(status, body) == [status |-> status, body |-> body]

\* authenticate that lets only the admin role through
authenticate_adminOnly(hdr, t) ==
    LET token == IF hdr.present THEN replaceBearer(hdr.parts) ELSE <<>>
    IN  IF token = <<>>
        THEN [ok |-> FALSE, decoded |-> JunkLex, resp |-> Response(401, "Access denied")]
        ELSE IF jwt_verify(token, JWT_SECRET, t) /\ token[1].role = "admin"
        THEN [ok |-> TRUE, decoded |-> token[1], resp |-> Response(200, "")]
        ELSE [ok |-> FALSE, decoded |-> JunkLex, resp |-> Response(401, "Invalid token")]

\* authenticate that refuses the tokens presented at /logout
authenticate_revoking(hdr, t) ==
    LET token == IF hdr.present THEN replaceBearer(hdr.parts) ELSE <<>>
    IN  IF token = <<>>
        THEN [ok |-> FALSE, decoded |-> JunkLex, resp |-> Response(401, "Access denied")]
        ELSE IF jwt_verify(token, JWT_SECRET, t) /\ token[1] \notin loggedOut
        THEN [ok |-> TRUE, decoded |-> token[1], resp |-> Response(200, "")]
        ELSE [ok |-> FALSE, decoded |-> JunkLex, resp |-> Response(401, "Invalid token")]

\* authenticate: [ok, decoded] when next() is called, else [ok = FALSE, resp]
authenticate(hdr, t) ==
    LET token == IF hdr.present THEN replaceBearer(hdr.parts) ELSE <<>>
    IN  IF token = <<>>
        THEN [ok |-> FALSE, decoded |-> JunkLex, resp |-> Response(401, "Access denied")]
        ELSE IF jwt_verify(token, JWT_SECRET, t)
        THEN [ok |-> TRUE, decoded |-> token[1], resp |-> Response(200, "")]
        ELSE [ok |-> FALSE, decoded |-> JunkLex, resp |-> Response(401, "Invalid token")]

(***************************************************************************)
(* The store.  A table is a function from the ids in use to rows; ids are  *)
(* assigned by the store (ObjectId / SERIAL) and never reused: seq holds   *)
(* the next id of each table.                                              *)
(***************************************************************************)
DB == [users |-> users, books |-> books, borrow_records |-> borrow_records,
       stats_history |-> stats_history, seq |-> seq]

Out(db, status, text, rows) ==
    [db |-> db, resp |-> Response(status, [text |-> text, rows |-> rows])]

\* A path parameter is the text of an id, <<n>>, or text the store cannot
\* cast to an id (CastError in mongoose, invalid input syntax in pg).
NotAnId == <<>>
castOk(id) == id # NotAnId

RECURSIVE SortedIds(_)
SortedIds(S) ==
    IF S = {} THEN <<>>
    ELSE LET m == CHOOSE x \in S : \A y \in S : x <= y
         IN  <<m>> \o SortedIds(S \ {m})

Insert(tbl, id, row) == [i \in DOMAIN tbl \cup {id} |-> IF i = id THEN row ELSE tbl[i]]
Remove(tbl, id) == [i \in DOMAIN tbl \ {id} |-> tbl[i]]

\* unique index on users.email (userSchema, unique: true); `self' is the row
\* being rewritten, 0 for an insert
emailTaken(db, email, self) ==
    \E i \in DOMAIN db.users : i # self /\ db.users[i].email = email

\* the relational schema is not part of the sources: users.email is unique
\* there as well
pgEmailTaken(db, email, self) == emailTaken(db, email, self)

(***************************************************************************)
(* Users and authentication routes.                                        *)
(***************************************************************************)
\* userSchema: role is one of the enum, default 'student'
roleValid(role) == IsNull(role) \/ Val(role) \in Roles
roleOrDefault(role) == IF IsNull(role) THEN "student" ELSE Val(role)

\* the explicit projections of the handlers
UserFull(id, u) ==
    [user_id |-> id, full_name |-> u.full_name, email |-> u.email, role |-> u.role]
\* SELECT * / RETURNING *
UserStar(id, u) ==
    [user_id |-> id, full_name |-> u.full_name, email |-> u.email,
     password |-> u.password, role |-> u.role]

NewUser(db, row) ==
    [db EXCEPT !.users = Insert(db.users, db.seq.user, row),
               !.seq.user = db.seq.user + 1]

\* POST /register after bcrypt.hash: user.save() / INSERT
PostRegisterSave(db, p, hashedPassword) ==
    IF variant = "mongo"
    THEN LET role == IF IsNull(p.role) \/ Val(p.role) = "" THEN Some("student") ELSE p.role
         IN  IF ~roleValid(role)
             THEN Out(db, 500, "Error registering user", <<>>)
             ELSE IF emailTaken(db, p.email, 0)
             THEN Out(db, 400, "Email already exists", <<>>)
             ELSE Out(NewUser(db, [full_name |-> p.full_name, email |-> p.email,
                                   password |-> Some(hashedPassword),
                                   role |-> Val(role)]),
                      200, "User registered successfully", <<>>)
    ELSE IF pgEmailTaken(db, p.email, 0)
         THEN Out(db, 500, "Error registering user", <<>>)
         ELSE Out(NewUser(db, [full_name |-> p.full_name, email |-> p.email,
                               password |-> Some(hashedPassword),
                               role |-> IF IsNull(p.role) THEN "" ELSE Val(p.role)]),
                  200, "User registered successfully", <<>>)

PostRegister(db, p) == PostRegisterSave(db, p, bcrypt_hash(p.password))

\* POST /login
PostLogin(db, t, p) ==
    LET found == {i \in DOMAIN db.users : db.users[i].email = p.email}
    IN  IF found = {}
        THEN Out(db, 401, "User not found", <<>>)
        ELSE LET id == CHOOSE i \in found : \A j \in found : i <= j
                 user == db.users[id]
             IN  IF IsNull(user.password)
                 THEN Out(db, 500, "Login error", <<>>)
                 ELSE IF ~bcrypt_compare(p.password, Val(user.password))
                 THEN Out(db, 401, "Invalid password", <<>>)
                 ELSE Out(db, 200, "",
                          <<[token |-> jwt_sign(id, user.role, JWT_SECRET, t)]>>)

\* POST /logout (server.js only)
PostLogout(db) == Out(db, 200, "Logged out successfully", <<>>)

\* GET /users
GetUsers(db) ==
    LET ids == SortedIds(DOMAIN db.users)
    IN  Out(db, 200, "",
            [i \in 1..Len(ids) |->
                IF variant = "mongo" THEN UserFull(ids[i], db.users[ids[i]])
                                     ELSE UserStar(ids[i], db.users[ids[i]])])

\* POST /users
PostUsers(db, p) ==
    IF variant = "mongo"
    THEN IF ~roleValid(p.role)
         THEN Out(db, 500, "Error adding user", <<>>)
         ELSE IF emailTaken(db, p.email, 0)
         THEN Out(db, 400, "Email already exists", <<>>)
         ELSE LET row == [full_name |-> p.full_name, email |-> p.email,
                          password |-> Some(bcrypt_hash(DEFAULT_PASSWORD)),
                          role |-> roleOrDefault(p.role)]
              IN  Out(NewUser(db, row), 200, "", <<UserFull(db.seq.user, row)>>)
    ELSE IF pgEmailTaken(db, p.email, 0)
         THEN Out(db, 500, "Error adding user", <<>>)
         ELSE LET row == [full_name |-> p.full_name, email |-> p.email,
                          password |-> NULL,
                          role |-> IF IsNull(p.role) THEN "" ELSE Val(p.role)]
              IN  Out(NewUser(db, row), 200, "", <<UserStar(db.seq.user, row)>>)

\* GET /users/me
GetUsersMe(db, decoded) ==
    IF decoded.id \notin DOMAIN db.users
    THEN Out(db, 404, "User not found", <<>>)
    ELSE Out(db, 200, "", <<UserFull(decoded.id, db.users[decoded.id])>>)

\* PUT /users/me
PutUsersMe(db, decoded, p) ==
    LET id == decoded.id
    IN  IF id \notin DOMAIN db.users
        THEN Out(db, 404, "User not found", <<>>)
        ELSE IF (IF variant = "mongo" THEN emailTaken(db, p.email, id)
                                      ELSE pgEmailTaken(db, p.email, id))
        THEN Out(db, 500, "Error updating user", <<>>)
        ELSE LET old == db.users[id]
                 row == [old EXCEPT !.full_name = p.full_name, !.email = p.email,
                                    !.password = IF IsNull(p.password) \/ Val(p.password) = ""
                                                 THEN old.password
                                                 ELSE Some(bcrypt_hash(Val(p.password)))]
             IN  Out([db EXCEPT !.users[id] = row], 200, "", <<UserFull(id, row)>>)

\* PUT /users/:id
PutUsersId(db, id, p) ==
    IF ~castOk(id)
    THEN Out(db, 500, "Error updating user", <<>>)
    ELSE IF Val(id) \notin DOMAIN db.users
    THEN Out(db, 404, "User not found", <<>>)
    ELSE IF (IF variant = "mongo" THEN emailTaken(db, p.email, Val(id))
                                  ELSE pgEmailTaken(db, p.email, Val(id)))
    THEN Out(db, 500, "Error updating user", <<>>)
    ELSE LET old == db.users[Val(id)]
             row == [old EXCEPT !.full_name = p.full_name, !.email = p.email,
                                !.role = IF variant = "mongo"
                                         THEN (IF IsNull(p.role) THEN old.role ELSE Val(p.role))
                                         ELSE (IF IsNull(p.role) THEN "" ELSE Val(p.role))]
         IN  Out([db EXCEPT !.users[Val(id)] = row], 200, "",
                 IF variant = "mongo" THEN <<UserFull(Val(id), row)>>
                                      ELSE <<UserStar(Val(id), row)>>)

\* the relational schema is not part of the sources: borrow_records.user_id
\* and borrow_records.book_id are foreign keys, with the default NO ACTION
pgUserReferenced(db, id) ==
    \E r \in DOMAIN db.borrow_records : db.borrow_records[r].borrower = id
pgBookReferenced(db, id) ==
    \E r \in DOMAIN db.borrow_records : db.borrow_records[r].book_id = id

\* DELETE /users/:id
DeleteUsersId(db, id) ==
    IF ~castOk(id)
    THEN Out(db, 500, "Error deleting user", <<>>)
    ELSE IF variant = "pg" /\ pgUserReferenced(db, Val(id))
    THEN Out(db, 500, "Error deleting user", <<>>)
    ELSE Out([db EXCEPT !.users = Remove(db.users, Val(id))], 200, "User deleted", <<>>)

(***************************************************************************)
(* Books routes.                                                           *)
(***************************************************************************)
BookRow(id, b) == [book_id |-> id, title |-> b.title, copies_available |-> b.copies_available]

NewBook(db, row) ==
    [db EXCEPT !.books = Insert(db.books, db.seq.book, row),
               !.seq.book = db.seq.book + 1]

\* copies_available || 1
copiesOrOne(c) == IF IsNull(c) \/ Val(c) = 0 THEN Some(1) ELSE c

\* GET /books
GetBooks(db) ==
    LET ids == SortedIds(DOMAIN db.books)
    IN  Out(db, 200, "", [i \in 1..Len(ids) |-> BookRow(ids[i], db.books[ids[i]])])

\* POST /books
PostBooks(db, p) ==
    LET row == [title |-> p.title, copies_available |-> copiesOrOne(p.copies_available)]
    IN  Out(NewBook(db, row), 200, "", <<BookRow(db.seq.book, row)>>)

\* PUT /books/:id
PutBooksId(db, id, p) ==
    IF ~castOk(id)
    THEN Out(db, 500, "Error updating book", <<>>)
    ELSE IF Val(id) \notin DOMAIN db.books
    THEN Out(db, 404, "Book not found", <<>>)
    ELSE LET old == db.books[Val(id)]
             row == [old EXCEPT !.title = p.title,
                                !.copies_available =
                                    IF variant = "mongo" /\ IsNull(p.copies_available)
                                    THEN old.copies_available
                                    ELSE p.copies_available]
         IN  Out([db EXCEPT !.books[Val(id)] = row], 200, "", <<BookRow(Val(id), row)>>)

\* DELETE /books/:id
DeleteBooksId(db, id) ==
    IF ~castOk(id)
    THEN Out(db, 500, "Error deleting book", <<>>)
    ELSE IF variant = "pg" /\ pgBookReferenced(db, Val(id))
    THEN Out(db, 500, "Error deleting book", <<>>)
    ELSE Out([db EXCEPT !.books = Remove(db.books, Val(id))], 200, "Book deleted", <<>>)

\* Book.insertMany(docs): the documents in order, copies_available defaulting to 1
RECURSIVE insertMany(_, _)
insertMany(db, docs) ==
    IF docs = <<>> THEN db
    ELSE insertMany(NewBook(db, [title |-> Head(docs).title,
                                 copies_available |->
                                     IF IsNull(Head(docs).copies_available)
                                     THEN Some(1)
                                     ELSE Head(docs).copies_available]),
                    Tail(docs))

\* POST /bulk-books (server.js only); p.books is NULL when the body holds no array
PostBulkBooks(db, p) ==
    IF IsNull(p.books)
    THEN Out(db, 400, "Books must be an array", <<>>)
    ELSE Out(insertMany(db, Val(p.books)), 200, "Books added successfully", <<>>)

(***************************************************************************)
(* Borrow records routes.  A row is [borrower, book_id, due_date,          *)
(* return_date, status]; borrower is user_name in server.js and user_id in *)
(* the relational revision.  borrow_date and created_at are written once   *)
(* at insert and read by no handler's decision; the rows leave them out.   *)
(***************************************************************************)
\* DATE: a timestamp truncated to its day
DateOf(t) == (t \div MS_PER_DAY) * MS_PER_DAY

titleOf(db, r) ==
    IF r.book_id \in DOMAIN db.books THEN db.books[r.book_id].title ELSE "Unknown"

NewRecord(db, row) ==
    [db EXCEPT !.borrow_records = Insert(db.borrow_records, db.seq.record, row),
               !.seq.record = db.seq.record + 1]

RecordRow(id, r) ==
    [record_id |-> id, borrower |-> r.borrower, book_id |-> r.book_id,
     due_date |-> r.due_date, return_date |-> r.return_date, status |-> r.status]

\* the relational schema is not part of the sources: the foreign keys and the
\* NOT NULL of due_date decide whether the INSERT is accepted
pgBorrowInsertOk(db, p) ==
    /\ ~IsNull(p.due_date)
    /\ castOk(p.book_id) /\ Val(p.book_id) \in DOMAIN db.books
    /\ p.borrower \in DOMAIN db.users

\* the relational schema is not part of the sources: the column defaults of
\* borrow_records
pgBorrowDefaults == [return_date |-> NULL, status |-> "borrowed"]

\* POST /borrow_records
PostBorrowRecords(db, p) ==
    IF variant = "mongo"
    THEN IF IsNull(p.due_date) \/ ~castOk(p.book_id)
         THEN Out(db, 500, "Error creating borrow record", <<>>)
         ELSE LET row == [borrower |-> p.borrower, book_id |-> Val(p.book_id),
                          due_date |-> Val(p.due_date), return_date |-> NULL,
                          status |-> "borrowed"]
              IN  Out(NewRecord(db, row), 200, "", <<RecordRow(db.seq.record, row)>>)
    ELSE IF ~pgBorrowInsertOk(db, p)
         THEN Out(db, 500, "Error creating borrow record", <<>>)
         ELSE LET row == [borrower |-> p.borrower, book_id |-> Val(p.book_id),
                          due_date |-> DateOf(Val(p.due_date)),
                          return_date |-> pgBorrowDefaults.return_date,
                          status |-> pgBorrowDefaults.status]
              IN  Out(NewRecord(db, row), 200, "", <<RecordRow(db.seq.record, row)>>)

\* PUT /borrow_records/:id/return writing return_date and leaving status alone
PutBorrowRecordsReturn_dateOnly(db, t, id) ==
    IF ~castOk(id)
    THEN Out(db, 500, "Error updating borrow record", <<>>)
    ELSE IF Val(id) \notin DOMAIN db.borrow_records
    THEN IF variant = "mongo"
         THEN Out(db, 404, "Record not found", <<>>)
         ELSE Out(db, 200, "", <<>>)
    ELSE LET row == [db.borrow_records[Val(id)] EXCEPT
                         !.return_date = IF variant = "mongo" THEN Some(t)
                                                              ELSE Some(DateOf(t))]
         IN  Out([db EXCEPT !.borrow_records[Val(id)] = row], 200, "",
                 <<RecordRow(Val(id), row)>>)

\* PUT /borrow_records/:id/return flipping a returned record back to borrowed
PutBorrowRecordsReturn_toggle(db, t, id) ==
    IF ~castOk(id)
    THEN Out(db, 500, "Error updating borrow record", <<>>)
    ELSE IF Val(id) \notin DOMAIN db.borrow_records
    THEN IF variant = "mongo"
         THEN Out(db, 404, "Record not found", <<>>)
         ELSE Out(db, 200, "", <<>>)
    ELSE LET old == db.borrow_records[Val(id)]
             row == IF old.status = "returned"
                    THEN [old EXCEPT !.return_date = NULL, !.status = "borrowed"]
                    ELSE [old EXCEPT !.return_date = IF variant = "mongo" THEN Some(t)
                                                                          ELSE Some(DateOf(t)),
                                     !.status = "returned"]
         IN  Out([db EXCEPT !.borrow_records[Val(id)] = row], 200, "",
                 <<RecordRow(Val(id), row)>>)

\* PUT /borrow_records/:id/return refusing a record that is already returned
PutBorrowRecordsReturn_once(db, t, id) ==
    IF ~castOk(id)
    THEN Out(db, 500, "Error updating borrow record", <<>>)
    ELSE IF Val(id) \notin DOMAIN db.borrow_records
    THEN IF variant = "mongo"
         THEN Out(db, 404, "Record not found", <<>>)
         ELSE Out(db, 200, "", <<>>)
    ELSE IF db.borrow_records[Val(id)].status = "returned"
    THEN Out(db, 409, "Already returned", <<>>)
    ELSE LET row == [db.borrow_records[Val(id)] EXCEPT
                         !.return_date = IF variant = "mongo" THEN Some(t)
                                                              ELSE Some(DateOf(t)),
                         !.status = "returned"]
         IN  Out([db EXCEPT !.borrow_records[Val(id)] = row], 200, "",
                 <<RecordRow(Val(id), row)>>)

\* PUT /borrow_records/:id/return
PutBorrowRecordsReturn(db, t, id) ==
    IF ~castOk(id)
    THEN Out(db, 500, "Error updating borrow record", <<>>)
    ELSE IF Val(id) \notin DOMAIN db.borrow_records
    THEN IF variant = "mongo"
         THEN Out(db, 404, "Record not found", <<>>)
         ELSE Out(db, 200, "", <<>>)
    ELSE LET row == [db.borrow_records[Val(id)] EXCEPT
                         !.return_date = IF variant = "mongo" THEN Some(t)
                                                              ELSE Some(DateOf(t)),
                         !.status = "returned"]
         IN  Out([db EXCEPT !.borrow_records[Val(id)] = row], 200, "",
                 <<RecordRow(Val(id), row)>>)

\* DELETE /borrow_records/:id
DeleteBorrowRecordsId(db, id) ==
    IF ~castOk(id)
    THEN Out(db, 500, "Error deleting borrow record", <<>>)
    ELSE Out([db EXCEPT !.borrow_records = Remove(db.borrow_records, Val(id))],
             200, "Borrow record deleted", <<>>)

\* the rows the relational revision's inner JOINs keep
pgJoined(db) ==
    {r \in DOMAIN db.borrow_records :
        /\ db.borrow_records[r].borrower \in DOMAIN db.users
        /\ db.borrow_records[r].book_id \in DOMAIN db.books}

\* GET /borrow_records
GetBorrowRecords(db) ==
    LET ids == SortedIds(IF variant = "mongo" THEN DOMAIN db.borrow_records
                                              ELSE pgJoined(db))
    IN  Out(db, 200, "",
            [i \in 1..Len(ids) |->
                LET r == db.borrow_records[ids[i]]
                IN  [record_id |-> ids[i], title |-> titleOf(db, r),
                     due_date |-> r.due_date, return_date |-> r.return_date,
                     status |-> r.status]])

(***************************************************************************)
(* Reports.                                                                *)
(***************************************************************************)
\* the current date of the overdue query: new Date() / CURRENT_DATE
currentDate(t) == IF variant = "mongo" THEN t ELSE DateOf(t)

\* GET /reports/overdue without the return_date filter
GetReportsOverdue_returnedToo(db, t) ==
    LET from == IF variant = "mongo" THEN DOMAIN db.borrow_records ELSE pgJoined(db)
        ids == SortedIds({r \in from : db.borrow_records[r].due_date < currentDate(t)})
    IN  Out(db, 200, "",
            [i \in 1..Len(ids) |->
                LET r == db.borrow_records[ids[i]]
                    overdueDays == (currentDate(t) - r.due_date) \div MS_PER_DAY
                IN  [borrower |-> r.borrower, title |-> titleOf(db, r),
                     due_date |-> r.due_date, overdue_days |-> overdueDays,
                     fine |-> overdueDays * FINE_PER_DAY]])

\* GET /reports/overdue
GetReportsOverdue(db, t) ==
    LET from == IF variant = "mongo" THEN DOMAIN db.borrow_records ELSE pgJoined(db)
        ids == SortedIds({r \in from :
                            /\ IsNull(db.borrow_records[r].return_date)
                            /\ db.borrow_records[r].due_date < currentDate(t)})
    IN  Out(db, 200, "",
            [i \in 1..Len(ids) |->
                LET r == db.borrow_records[ids[i]]
                    overdueDays == (currentDate(t) - r.due_date) \div MS_PER_DAY
                IN  [borrower |-> r.borrower, title |-> titleOf(db, r),
                     due_date |-> r.due_date, overdue_days |-> overdueDays,
                     fine |-> overdueDays * FINE_PER_DAY]])

\* borrow_count of a group
countBy(db, from, key, k) ==
    Cardinality({r \in from : db.borrow_records[r][key] = k})

\* $sort / ORDER BY borrow_count DESC over the groups `keys' with counts cnt;
\* the store leaves the order of equal counts open
RECURSIVE sortDesc(_, _)
sortDesc(keys, cnt) ==
    IF keys = {} THEN <<>>
    ELSE LET m == CHOOSE x \in keys : \A y \in keys : cnt[x] >= cnt[y]
         IN  <<m>> \o sortDesc(keys \ {m}, cnt)

limit(s, n) == SubSeq(s, 1, IF Len(s) < n THEN Len(s) ELSE n)

\* GET /reports/most-borrowed cutting the groups off in id order, without the sort
GetReportsMostBorrowed_unsorted(db) ==
    LET from == DOMAIN db.borrow_records
        keys == {db.borrow_records[r].book_id : r \in from} \cap DOMAIN db.books
    IN  CHOOSE out \in
            {Out(db, 200, "",
                 [i \in 1..Len(limit(SortedIds(keys), REPORT_LIMIT)) |->
                     [title |-> db.books[SortedIds(keys)[i]].title,
                      borrow_count |-> cnt[SortedIds(keys)[i]]]]) :
                 cnt \in {[k \in keys |-> countBy(db, from, "book_id", k)]}} : TRUE

\* GET /reports/most-borrowed: the groups by book_id, joined with books ($lookup
\* and $unwind / JOIN books), sorted and cut
GetReportsMostBorrowed(db) ==
    LET from == DOMAIN db.borrow_records
        keys == {db.borrow_records[r].book_id : r \in from} \cap DOMAIN db.books
    IN  CHOOSE out \in
            UNION {{Out(db, 200, "",
                        [i \in 1..Len(ord) |->
                            [title |-> db.books[ord[i]].title,
                             borrow_count |-> cnt[ord[i]]]]) :
                        ord \in {limit(sortDesc(keys, cnt), REPORT_LIMIT)}} :
                   cnt \in {[k \in keys |-> countBy(db, from, "book_id", k)]}} : TRUE

\* GET /reports/active-users
GetReportsActiveUsers(db) ==
    LET from == IF variant = "mongo" THEN DOMAIN db.borrow_records ELSE pgJoined(db)
        keys == {db.borrow_records[r].borrower : r \in from}
        cnt == [k \in keys |-> countBy(db, from, "borrower", k)]
        ord == limit(sortDesc(keys, cnt), REPORT_LIMIT)
    IN  Out(db, 200, "",
            [i \in 1..Len(ord) |-> [borrower |-> ord[i], borrow_count |-> cnt[ord[i]]]])

(***************************************************************************)
(* Stats routes (server.js only).  stats_history is the collection in      *)
(* insertion order.                                                        *)
(***************************************************************************)
\* GET /stats/previous
GetStatsPrevious(db, t) ==
    LET yesterday == DateOf(t) - MS_PER_DAY
        hits == {i \in 1..Len(db.stats_history) : db.stats_history[i].date >= yesterday}
    IN  IF hits = {}
        THEN Out(db, 200, "", <<[totalBooks |-> 0, totalUsers |-> 0,
                                 activeBorrows |-> 0, overdueBooks |-> 0]>>)
        ELSE LET i == CHOOSE x \in hits :
                        \A y \in hits : db.stats_history[x].date >= db.stats_history[y].date
                 st == db.stats_history[i]
             IN  Out(db, 200, "", <<[totalBooks |-> st.total_books,
                                     totalUsers |-> st.total_users,
                                     activeBorrows |-> st.active_borrows,
                                     overdueBooks |-> st.overdue_books]>>)

\* findOneAndUpdate({date: today}, row, {upsert: true})
upsertStats(hist, row) ==
    LET hits == {i \in 1..Len(hist) : hist[i].date = row.date}
    IN  IF hits = {} THEN Append(hist, row)
        ELSE LET i == CHOOSE x \in hits : \A y \in hits : x <= y
             IN  [hist EXCEPT ![i] = row]

\* POST /stats/insert-daily, its four counts taken with no other request between
PostStatsInsertDaily(db, t) ==
    LET active == {r \in DOMAIN db.borrow_records : IsNull(db.borrow_records[r].return_date)}
        row == [date |-> DateOf(t),
                total_books |-> Cardinality(DOMAIN db.books),
                total_users |-> Cardinality(DOMAIN db.users),
                active_borrows |-> Cardinality(active),
                overdue_books |->
                    Cardinality({r \in active : db.borrow_records[r].due_date < t})]
    IN  Out([db EXCEPT !.stats_history = upsertStats(db.stats_history, row)],
            200, "Daily stats inserted", <<>>)

\* the locals of one POST /stats/insert-daily between its awaits: pc names the
\* store call that is outstanding
StatsLocals(pc, today, tb, tu, ab, ob, matched) ==
    [pc |-> pc, today |-> today, total_books |-> tb, total_users |-> tu,
     active_borrows |-> ab, overdue_books |-> ob, matched |-> matched]

\* the query {date: today} of findOneAndUpdate
statsFind(hist, date) == \E i \in 1..Len(hist) : hist[i].date = date

\* a collection without the unique index on date
statsDateTaken_noIndex(hist, date) == FALSE

\* unique index on stats_history.date (statsHistorySchema, unique: true)
statsDateTaken(hist, date) == \E i \in 1..Len(hist) : hist[i].date = date

\* The store runs findOneAndUpdate(..., {upsert: true}) as a query and a write, and
\* other writes may come between.  `matched' is what the query found.  A matched
\* document is updated.  With no match the row is inserted; when another request
\* has inserted the day meanwhile the unique index refuses the insert, and the
\* store either retries the operation as an update or reports E11000.
upsertWrite(hist, row, matched) ==
    IF matched
    THEN {[ok |-> TRUE, hist |-> upsertStats(hist, row)]}
    ELSE IF statsDateTaken(hist, row.date)
    THEN {[ok |-> TRUE, hist |-> upsertStats(hist, row)], [ok |-> FALSE, hist |-> hist]}
    ELSE {[ok |-> TRUE, hist |-> Append(hist, row)]}

\* GET /
GetRoot(db) == Out(db, 200, "Connected", <<>>)

(***************************************************************************)
(* Routing: app.METHOD(path, [authenticate,] handler).                     *)
(***************************************************************************)
PublicRoutes == {"GET /", "POST /register", "POST /login", "GET /reports/overdue"}

GatedBoth ==
    {"GET /users", "POST /users", "GET /users/me", "PUT /users/me", "PUT /users/:id",
     "DELETE /users/:id", "GET /books", "POST /books", "PUT /books/:id",
     "DELETE /books/:id", "GET /borrow_records", "POST /borrow_records",
     "PUT /borrow_records/:id/return", "DELETE /borrow_records/:id",
     "GET /reports/most-borrowed", "GET /reports/active-users"}

GatedMongoOnly ==
    {"POST /logout", "POST /bulk-books", "GET /stats/previous", "POST /stats/insert-daily"}

\* the routes registered with the authenticate middleware
GatedRoutes == IF variant = "mongo" THEN GatedBoth \cup GatedMongoOnly ELSE GatedBoth

Routes == PublicRoutes \cup GatedRoutes

Handler(req, decoded, db, t) ==
    CASE req.route = "GET /" -> GetRoot(db)
      [] req.route = "POST /register" -> PostRegister(db, req.p)
      [] req.route = "POST /login" -> PostLogin(db, t, req.p)
      [] req.route = "POST /logout" -> PostLogout(db)
      [] req.route = "GET /users" -> GetUsers(db)
      [] req.route = "POST /users" -> PostUsers(db, req.p)
      [] req.route = "GET /users/me" -> GetUsersMe(db, decoded)
      [] req.route = "PUT /users/me" -> PutUsersMe(db, decoded, req.p)
      [] req.route = "PUT /users/:id" -> PutUsersId(db, req.id, req.p)
      [] req.route = "DELETE /users/:id" -> DeleteUsersId(db, req.id)
      [] req.route = "GET /books" -> GetBooks(db)
      [] req.route = "POST /books" -> PostBooks(db, req.p)
      [] req.route = "PUT /books/:id" -> PutBooksId(db, req.id, req.p)
      [] req.route = "DELETE /books/:id" -> DeleteBooksId(db, req.id)
      [] req.route = "POST /bulk-books" -> PostBulkBooks(db, req.p)
      [] req.route = "GET /borrow_records" -> GetBorrowRecords(db)
      [] req.route = "POST /borrow_records" -> PostBorrowRecords(db, req.p)
      [] req.route = "PUT /borrow_records/:id/return" -> PutBorrowRecordsReturn(db, t, req.id)
      [] req.route = "DELETE /borrow_records/:id" -> DeleteBorrowRecordsId(db, req.id)
      [] req.route = "GET /reports/most-borrowed" -> GetReportsMostBorrowed(db)
      [] req.route = "GET /reports/active-users" -> GetReportsActiveUsers(db)
      [] req.route = "GET /reports/overdue" -> GetReportsOverdue(db, t)
      [] req.route = "GET /stats/previous" -> GetStatsPrevious(db, t)
      [] req.route = "POST /stats/insert-daily" -> PostStatsInsertDaily(db, t)

\* one request served against store db at time t: the middleware, then the handler
Dispatch(req, db, t) ==
    IF req.route \notin Routes
    THEN Out(db, 404, "Cannot " \o req.route, <<>>)
    ELSE IF req.route \in GatedRoutes
    THEN LET a == authenticate(req.hdr, t)
         IN  IF a.ok THEN Handler(req, a.decoded, db, t)
             ELSE [db |-> db, resp |-> Response(a.resp.status,
                                                [text |-> a.resp.body, rows |-> <<>>])]
    ELSE Handler(req, JunkLex, db, t)

(***************************************************************************)
(* Requests: the inputs of the model.                                      *)
(***************************************************************************)
Emails == {"a@x", "b@x"}
Names == {"N"}
Titles == {"T"}
Passwords == {"pw", DEFAULT_PASSWORD}
RoleInputs == {NULL, Some("admin")}
CopiesInputs == {NULL, Some(0 - 1), Some(0), Some(2)}
DueDates == {d * MS_PER_DAY : d \in 0..MaxDays}
IdInputs(max) == {NotAnId} \cup {Some(i) : i \in 1..max}
Borrowers == IF variant = "mongo" THEN Names ELSE 1..MaxUsers
BookDocs == [title : Titles, copies_available : CopiesInputs]
NoBody == [none : {TRUE}]

Bodies(route) ==
    CASE route = "POST /register" ->
            [full_name : Names, email : Emails, password : {"pw"}, role : RoleInputs]
      [] route = "POST /login" -> [email : Emails, password : Passwords]
      [] route = "POST /users" -> [full_name : Names, email : Emails, role : RoleInputs]
      [] route = "PUT /users/me" ->
            [full_name : Names, email : Emails, password : {NULL, Some("pw2")}]
      [] route = "PUT /users/:id" -> [full_name : Names, email : Emails, role : RoleInputs]
      [] route \in {"POST /books", "PUT /books/:id"} -> BookDocs
      [] route = "POST /bulk-books" ->
            [books : {NULL, Some(<<>>)} \cup {Some(<<d>>) : d \in BookDocs}]
      [] route = "POST /borrow_records" ->
            [borrower : Borrowers, book_id : IdInputs(MaxBooks),
             due_date : {NULL} \cup {Some(d) : d \in DueDates}]
      [] OTHER -> NoBody

IdParams(route) ==
    CASE route \in {"PUT /users/:id", "DELETE /users/:id"} -> IdInputs(MaxUsers)
      [] route \in {"PUT /books/:id", "DELETE /books/:id"} -> IdInputs(MaxBooks)
      [] route \in {"PUT /borrow_records/:id/return", "DELETE /borrow_records/:id"} ->
            IdInputs(MaxRecords)
      [] OTHER -> {NotAnId}

\* a token signed with another key, as a client without the secret can make it
forged(tok) == [tok EXCEPT !.key = OTHER_KEY]

\* the Authorization headers of the requests: none, and for each token a client
\* holds the token after "Bearer " and a forgery of it
Headers ==
    {NoHeader}
    \cup UNION { { Header(<<BearerLex, tok>>), Header(<<BearerLex, forged(tok)>>) } :
                 tok \in tokens }

Request(route, hdr, id, p) == [route |-> route, hdr |-> hdr, id |-> id, p |-> p]

Requests(route) ==
    {Request(route, h, id, p) :
        h \in (IF route \in PublicRoutes THEN {NoHeader} ELSE Headers),
        id \in IdParams(route), p \in Bodies(route)}

(***************************************************************************)
(* Initial states.                                                         *)
(***************************************************************************)
EmptyDB ==
    [users |-> <<>>, books |-> <<>>, borrow_records |-> <<>>, stats_history |-> <<>>,
     seq |-> [user |-> 1, book |-> 1, record |-> 1]]
NoResp == [route |-> "", status |-> 0, body |-> [text |-> "", rows |-> <<>>]]
Idle == [c \in 1..MaxInflight |-> NULL]

\* the process after start-up: an empty store, no request served
Init ==
    /\ variant \in Variants
    /\ now = 0
    /\ users = EmptyDB.users
    /\ books = EmptyDB.books
    /\ borrow_records = EmptyDB.borrow_records
    /\ stats_history = EmptyDB.stats_history
    /\ seq = EmptyDB.seq
    /\ pending = Idle
    /\ tokens = {}
    /\ loggedOut = {}
    /\ resp = NoResp

\* the store after POST /register, POST /login and POST /books at time 0
SeedUser == [full_name |-> "N", email |-> "a@x", password |-> "pw", role |-> NULL]
SeedDB ==
    PostBooks(PostRegister(EmptyDB, SeedUser).db,
              [title |-> "T", copies_available |-> NULL]).db
SeedToken ==
    PostLogin(SeedDB, 0, [email |-> "a@x", password |-> "pw"]).resp.body.rows[1].token

InitSeeded ==
    /\ variant \in Variants
    /\ now = 0
    /\ users = SeedDB.users
    /\ books = SeedDB.books
    /\ borrow_records = SeedDB.borrow_records
    /\ stats_history = SeedDB.stats_history
    /\ seq = SeedDB.seq
    /\ pending = Idle
    /\ tokens = {SeedToken}
    /\ loggedOut = {}
    /\ resp = NoResp

\* server.js half an hour after the seeding requests: the token is still valid and
\* a due_date of day 0 has passed
InitStatsRace ==
    /\ variant = "mongo"
    /\ now = ClockStepMs
    /\ users = SeedDB.users
    /\ books = SeedDB.books
    /\ borrow_records = SeedDB.borrow_records
    /\ stats_history = SeedDB.stats_history
    /\ seq = SeedDB.seq
    /\ pending = Idle
    /\ tokens = {SeedToken}
    /\ loggedOut = {}
    /\ resp = NoResp

\* book titles: "T", "T'", "T''", ...
RECURSIVE ReportTitle(_)
ReportTitle(i) == IF i <= 1 THEN "T" ELSE ReportTitle(i - 1) \o "'"

\* POST /books for the books i..n
RECURSIVE SeedBooks(_, _, _)
SeedBooks(db, i, n) ==
    IF i > n THEN db
    ELSE CHOOSE end \in
             {SeedBooks(d, i + 1, n) :
                  d \in {PostBooks(db, [title |-> ReportTitle(i),
                                        copies_available |-> NULL]).db}} : TRUE

\* POST /borrow_records by the seeded user, c[b] times for each book b of 1..n,
\* starting at book i with k requests for it already made
RECURSIVE SeedBorrows(_, _, _, _, _)
SeedBorrows(db, c, i, k, n) ==
    IF i > n THEN db
    ELSE IF k >= c[i] THEN SeedBorrows(db, c, i + 1, 0, n)
    ELSE CHOOSE end \in
             {SeedBorrows(d, c, i, k + 1, n) :
                  d \in {PostBorrowRecords(db, [borrower |-> IF variant = "mongo"
                                                             THEN "N" ELSE 1,
                                                book_id |-> Some(i),
                                                due_date |-> Some(0)]).db}} : TRUE

\* a library of MaxReportBooks books of which the first n have been borrowed, each at
\* least once
InitReport ==
    /\ variant \in Variants
    /\ now = 0
    /\ \E n \in 0..MaxReportBooks : \E c \in [1..n -> 1..MaxCount] :
          \E lib \in {SeedBooks(SeedDB, 2, MaxReportBooks)} :
          \E db \in {SeedBorrows(lib, c, 1, 0, n)} :
              /\ users = db.users
              /\ books = db.books
              /\ borrow_records = db.borrow_records
              /\ stats_history = db.stats_history
              /\ seq = db.seq
    /\ pending = Idle
    /\ tokens = {SeedToken}
    /\ loggedOut = {}
    /\ resp = NoResp

(***************************************************************************)
(* Actions: one per route.                                                 *)
(***************************************************************************)
\* the clients keep the MaxTokens newest tokens that login issued
held(toks) ==
    IF Cardinality(toks) <= MaxTokens THEN toks
    ELSE LET old == CHOOSE x \in toks : \A y \in toks : x.iat <= y.iat
         IN  toks \ {old}

Commit(req, out) ==
    /\ users' = out.db.users
    /\ books' = out.db.books
    /\ borrow_records' = out.db.borrow_records
    /\ stats_history' = out.db.stats_history
    /\ seq' = out.db.seq
    /\ resp' = [route |-> req.route, status |-> out.resp.status, body |-> out.resp.body]
    /\ tokens' = IF req.route = "POST /login" /\ out.resp.status = 200
                 THEN held(tokens \cup {out.resp.body.rows[1].token})
                 ELSE tokens
    /\ loggedOut' = (IF req.route = "POST /logout" /\ out.resp.status = 200
                     THEN loggedOut \cup {authenticate(req.hdr, now).decoded}
                     ELSE loggedOut) \cap tokens'

\* ids are capped: an insert is taken only while the table's next id is in range
InRange(db) ==
    /\ db.seq.user <= MaxUsers + 1
    /\ db.seq.book <= MaxBooks + 1
    /\ db.seq.record <= MaxRecords + 1

Serve(route) ==
    \E req \in Requests(route) :
        \E out \in {Dispatch(req, DB, now)} :
            /\ out.db.seq = seq \/ InRange(out.db)
            /\ Commit(req, out)
            /\ UNCHANGED <<variant, now, pending>>

\* time passes
Tick ==
    /\ \E t \in TimePoints : t > now /\ now' = t
    /\ UNCHANGED <<variant, users, books, borrow_records, stats_history, seq,
                   pending, tokens, loggedOut, resp>>

GetRootReq == Serve("GET /")
PostLoginReq == Serve("POST /login")
PostLogoutReq == Serve("POST /logout")
GetUsersReq == Serve("GET /users")
GetUsersMeReq == Serve("GET /users/me")
PutUsersMeReq == Serve("PUT /users/me")
PutUsersIdReq == Serve("PUT /users/:id")
DeleteUsersIdReq == Serve("DELETE /users/:id")
GetBooksReq == Serve("GET /books")
PostBooksReq == Serve("POST /books")
PutBooksIdReq == Serve("PUT /books/:id")
DeleteBooksIdReq == Serve("DELETE /books/:id")
PostBulkBooksReq == Serve("POST /bulk-books")
GetBorrowRecordsReq == Serve("GET /borrow_records")
PostBorrowRecordsReq == Serve("POST /borrow_records")
PutBorrowRecordsReturnReq == Serve("PUT /borrow_records/:id/return")
DeleteBorrowRecordsIdReq == Serve("DELETE /borrow_records/:id")
GetReportsMostBorrowedReq == Serve("GET /reports/most-borrowed")
GetReportsActiveUsersReq == Serve("GET /reports/active-users")
GetReportsOverdueReq == Serve("GET /reports/overdue")
GetStatsPreviousReq == Serve("GET /stats/previous")
PostStatsInsertDailyReq == Serve("POST /stats/insert-daily")

\* POST /register suspends at bcrypt.hash before it writes: the request waits in
\* `pending' and other requests run meanwhile
InsertBegin(route) ==
    \E req \in Requests(route), c \in 1..MaxInflight :
        /\ pending[c] = NULL
        /\ IF route \in GatedRoutes /\ ~authenticate(req.hdr, now).ok
           THEN LET a == authenticate(req.hdr, now)
                IN  /\ resp' = [route |-> route, status |-> a.resp.status,
                                body |-> [text |-> a.resp.body, rows |-> <<>>]]
                    /\ UNCHANGED pending
           ELSE /\ pending' = [pending EXCEPT
                                   ![c] = Some(Request(route, NoHeader, NotAnId, req.p))]
                /\ UNCHANGED resp
        /\ UNCHANGED <<variant, now, users, books, borrow_records, stats_history,
                       seq, tokens, loggedOut>>

InsertSave ==
    \E c \in 1..MaxInflight :
        /\ pending[c] # NULL
        /\ Val(pending[c]).route = "POST /register"
        /\ \E out \in {Handler(Val(pending[c]), JunkLex, DB, now)} :
               /\ InRange(out.db)
               /\ Commit(Val(pending[c]), out)
        /\ pending' = [pending EXCEPT ![c] = NULL]
        /\ UNCHANGED <<variant, now>>

PostRegisterBegin == InsertBegin("POST /register")

PostRegisterReq == Serve("POST /register")
PostUsersReq == Serve("POST /users")

(***************************************************************************)
(* POST /stats/insert-daily, one step per await.  Every store call is a    *)
(* suspension point: other requests run between the four counts and the    *)
(* upsert.                                                                 *)
(***************************************************************************)
StatsRoute == "POST /stats/insert-daily"

AtPc(c, route, pc) ==
    /\ pending[c] # NULL
    /\ Val(pending[c]).route = route
    /\ Val(pending[c]).p.pc = pc

SetLocals(c, l) == pending' = [pending EXCEPT ![c] = Some([Val(pending[c]) EXCEPT !.p = l])]

\* a request takes the first free slot of `pending'
FreeSlot(c) == pending[c] = NULL /\ \A d \in 1..(c - 1) : pending[d] # NULL

\* the middleware, then today = new Date() with setHours(0, 0, 0, 0)
PostStatsInsertDailyBegin ==
    \E req \in Requests(StatsRoute), c \in 1..MaxInflight :
        /\ FreeSlot(c)
        /\ IF StatsRoute \in Routes /\ authenticate(req.hdr, now).ok
           THEN /\ pending' = [pending EXCEPT ![c] =
                        Some(Request(StatsRoute, NoHeader, NotAnId,
                                     StatsLocals("books", DateOf(now), 0, 0, 0, 0, FALSE)))]
                /\ UNCHANGED <<users, books, borrow_records, stats_history, seq,
                               tokens, loggedOut, resp>>
           ELSE /\ \E out \in {Dispatch(req, DB, now)} : Commit(req, out)
                /\ UNCHANGED pending
        /\ UNCHANGED <<variant, now>>

\* await Book.countDocuments()
StatsCountBooks ==
    \E c \in 1..MaxInflight :
        /\ AtPc(c, StatsRoute, "books")
        /\ SetLocals(c, [Val(pending[c]).p EXCEPT
                             !.total_books = Cardinality(DOMAIN books), !.pc = "users"])
        /\ UNCHANGED <<variant, now, users, books, borrow_records, stats_history, seq,
                       tokens, loggedOut, resp>>

\* await User.countDocuments()
StatsCountUsers ==
    \E c \in 1..MaxInflight :
        /\ AtPc(c, StatsRoute, "users")
        /\ SetLocals(c, [Val(pending[c]).p EXCEPT
                             !.total_users = Cardinality(DOMAIN users), !.pc = "active"])
        /\ UNCHANGED <<variant, now, users, books, borrow_records, stats_history, seq,
                       tokens, loggedOut, resp>>

\* await BorrowRecord.countDocuments({return_date: null})
StatsCountActive ==
    \E c \in 1..MaxInflight :
        /\ AtPc(c, StatsRoute, "active")
        /\ SetLocals(c, [Val(pending[c]).p EXCEPT
                             !.active_borrows =
                                 Cardinality({r \in DOMAIN borrow_records :
                                                 IsNull(borrow_records[r].return_date)}),
                             !.pc = "overdue"])
        /\ UNCHANGED <<variant, now, users, books, borrow_records, stats_history, seq,
                       tokens, loggedOut, resp>>

\* await BorrowRecord.countDocuments({return_date: null, due_date: {$lt: new Date()}})
StatsCountOverdue ==
    \E c \in 1..MaxInflight :
        /\ AtPc(c, StatsRoute, "overdue")
        /\ SetLocals(c, [Val(pending[c]).p EXCEPT
                             !.overdue_books =
                                 Cardinality({r \in DOMAIN borrow_records :
                                                 /\ IsNull(borrow_records[r].return_date)
                                                 /\ borrow_records[r].due_date < now}),
                             !.pc = "find"])
        /\ UNCHANGED <<variant, now, users, books, borrow_records, stats_history, seq,
                       tokens, loggedOut, resp>>

\* StatsHistory.findOneAndUpdate: the query {date: today}
StatsUpsertFind ==
    \E c \in 1..MaxInflight :
        /\ AtPc(c, StatsRoute, "find")
        /\ SetLocals(c, [Val(pending[c]).p EXCEPT
                             !.matched = statsFind(stats_history, Val(pending[c]).p.today),
                             !.pc = "write"])
        /\ UNCHANGED <<variant, now, users, books, borrow_records, stats_history, seq,
                       tokens, loggedOut, resp>>

\* the row a suspended recompute is about to write
StatsRowOf(l) ==
    [date |-> l.today, total_books |-> l.total_books, total_users |-> l.total_users,
     active_borrows |-> l.active_borrows, overdue_books |-> l.overdue_books]

\* StatsHistory.findOneAndUpdate: the write, then res.json or the catch
PostStatsInsertDailySave ==
    \E c \in 1..MaxInflight :
        /\ AtPc(c, StatsRoute, "write")
        /\ \E w \in upsertWrite(stats_history, StatsRowOf(Val(pending[c]).p),
                                 Val(pending[c]).p.matched) :
               /\ stats_history' = w.hist
               /\ resp' = [route |-> StatsRoute,
                           status |-> IF w.ok THEN 200 ELSE 500,
                           body |-> [text |-> IF w.ok THEN "Daily stats inserted"
                                                      ELSE "Error inserting stats",
                                     rows |-> <<>>]]
        /\ pending' = [pending EXCEPT ![c] = NULL]
        /\ UNCHANGED <<variant, now, users, books, borrow_records, seq, tokens, loggedOut>>

NextUsers ==
    \/ PostRegisterReq \/ PostUsersReq
    \/ PostLoginReq \/ GetUsersReq \/ GetUsersMeReq \/ PutUsersMeReq
    \/ PutUsersIdReq \/ DeleteUsersIdReq

NextEmails ==
    \/ PostRegisterBegin \/ InsertSave \/ PostUsersReq
    \/ PutUsersMeReq \/ PutUsersIdReq

NextBooks ==
    \/ GetBooksReq \/ PostBooksReq \/ PutBooksIdReq \/ DeleteBooksIdReq
    \/ PostBulkBooksReq

NextBorrow ==
    \/ Tick \/ PostLoginReq \/ DeleteBooksIdReq
    \/ GetBorrowRecordsReq \/ PostBorrowRecordsReq \/ PutBorrowRecordsReturnReq
    \/ DeleteBorrowRecordsIdReq \/ GetReportsOverdueReq

NextSession ==
    \/ Tick \/ PostLoginReq \/ PostLogoutReq \/ GetUsersMeReq \/ PutUsersMeReq
    \/ PostBooksReq \/ PostBorrowRecordsReq

(***************************************************************************)
(* PUT /borrow_records/:id/return as a request in flight.  server.js       *)
(* evaluates new Date() when it builds the update and then awaits the      *)
(* store; the relational revision leaves CURRENT_DATE to the store.  The   *)
(* update itself is one atomic store operation.                            *)
(***************************************************************************)
PutBorrowRecordsReturnBegin ==
    \E req \in Requests("PUT /borrow_records/:id/return"), c \in 1..MaxInflight :
        /\ FreeSlot(c)
        /\ IF authenticate(req.hdr, now).ok
           THEN /\ pending' = [pending EXCEPT ![c] =
                        Some(Request(req.route, NoHeader, req.id,
                                     [pc |-> "update", t |-> now]))]
                /\ UNCHANGED <<users, books, borrow_records, stats_history, seq,
                               tokens, loggedOut, resp>>
           ELSE /\ \E out \in {Dispatch(req, DB, now)} : Commit(req, out)
                /\ UNCHANGED pending
        /\ UNCHANGED <<variant, now>>

\* the value the store writes to return_date for a suspended call
ReturnInstant(l) == IF variant = "mongo" THEN l.t ELSE now

PutBorrowRecordsReturnSave ==
    \E c \in 1..MaxInflight :
        /\ AtPc(c, "PUT /borrow_records/:id/return", "update")
        /\ \E out \in {PutBorrowRecordsReturn(DB, ReturnInstant(Val(pending[c]).p),
                                               Val(pending[c]).id)} :
               Commit(Val(pending[c]), out)
        /\ pending' = [pending EXCEPT ![c] = NULL]
        /\ UNCHANGED <<variant, now>>

\* returns in flight while time passes and records are created
NextReturn ==
    \/ Tick \/ PostBorrowRecordsReq
    \/ PutBorrowRecordsReturnBegin \/ PutBorrowRecordsReturnSave

\* the report over a large library, and a book deleted under its records
NextReport == GetReportsMostBorrowedReq \/ DeleteBooksIdReq

\* one recompute, await by await
StatsSteps ==
    \/ PostStatsInsertDailyBegin \/ StatsCountBooks \/ StatsCountUsers
    \/ StatsCountActive \/ StatsCountOverdue \/ StatsUpsertFind
    \/ PostStatsInsertDailySave

\* recomputes running concurrently, over several days
NextStats == Tick \/ PostLoginReq \/ StatsSteps \/ GetStatsPreviousReq

\* a recompute requested while no other request is suspended
PostStatsInsertDailyAlone == pending = Idle /\ PostStatsInsertDailyBegin

\* one recompute at a time, interleaved with the requests that write borrow records
NextStatsRace ==
    \/ PostBorrowRecordsReq \/ PutBorrowRecordsReturnReq \/ DeleteBorrowRecordsIdReq
    \/ PostStatsInsertDailyAlone \/ StatsCountBooks \/ StatsCountUsers
    \/ StatsCountActive \/ StatsCountOverdue \/ StatsUpsertFind
    \/ PostStatsInsertDailySave

Next ==
    \/ NextUsers \/ NextEmails \/ NextBooks \/ NextBorrow \/ NextSession \/ NextStats
    \/ NextStatsRace \/ NextReturn \/ NextReport
    \/ GetRootReq \/ GetReportsMostBorrowedReq \/ GetReportsActiveUsersReq
    \/ GetStatsPreviousReq \/ PostStatsInsertDailyReq

Spec == Init /\ [][Next]_vars
SpecUsers == Init /\ [][NextUsers]_vars
SpecEmails == InitSeeded /\ [][NextEmails]_vars
SpecBooks == InitSeeded /\ [][NextBooks]_vars
SpecBorrow == InitSeeded /\ [][NextBorrow]_vars
SpecSession == InitSeeded /\ [][NextSession]_vars
SpecStats == InitSeeded /\ [][NextStats]_vars
SpecStatsRace == InitStatsRace /\ [][NextStatsRace]_vars
SpecReturn == InitSeeded /\ [][NextReturn]_vars
SpecReport == InitReport /\ [][NextReport]_vars

(***************************************************************************)
(* Properties.                                                             *)
(***************************************************************************)
ReturnRoute == "PUT /borrow_records/:id/return"

\* C1: every stored borrow record has return_date null exactly when its status is
\* borrowed, and return_date set exactly when its status is returned
C1_StatusMatchesReturnDate ==
    \A r \in DOMAIN borrow_records :
        /\ borrow_records[r].status \in {"borrowed", "returned"}
        /\ IsNull(borrow_records[r].return_date) <=> borrow_records[r].status = "borrowed"
        /\ ~IsNull(borrow_records[r].return_date) <=> borrow_records[r].status = "returned"

\* a record was marked returned while another is still borrowed
C1_Witness ==
    /\ resp.route = ReturnRoute /\ resp.status = 200 /\ Len(resp.body.rows) = 1
    /\ \E r \in DOMAIN borrow_records : borrow_records[r].status = "returned"
    /\ \E r \in DOMAIN borrow_records : borrow_records[r].status = "borrowed"

\* C2: a record that is returned stays returned, with its return_date set, in every
\* step that does not delete it
C2_ReturnedStays ==
    [][\A r \in DOMAIN borrow_records :
          borrow_records[r].status = "returned" =>
              \/ r \notin DOMAIN borrow_records'
              \/ /\ borrow_records'[r].status = "returned"
                 /\ ~IsNull(borrow_records'[r].return_date)]_vars

\* a record returned on an earlier day is still returned after a later borrow was
\* recorded
C2_Witness ==
    /\ resp.route = "POST /borrow_records" /\ resp.status = 200
    /\ \E r \in DOMAIN borrow_records :
          /\ borrow_records[r].status = "returned"
          /\ r < resp.body.rows[1].record_id
          /\ Val(borrow_records[r].return_date) + MS_PER_DAY <= now

\* the current date of the overdue report: new Date() in server.js, CURRENT_DATE in
\* the relational revision
C5_Current == IF variant = "mongo" THEN now ELSE (now \div MS_PER_DAY) * MS_PER_DAY
C5_Selected ==
    {r \in DOMAIN borrow_records :
        /\ borrow_records[r].return_date = NULL
        /\ borrow_records[r].due_date < C5_Current}

\* C5: GET /reports/overdue has one row for each record with return_date null and
\* due_date before the current date and no other row; overdue_days is the whole-day
\* difference, is not negative, and fine equals overdue_days
C5_OverdueReport ==
    LET rows == GetReportsOverdue(DB, now).resp.body.rows
        ids == SortedIds(C5_Selected)
    IN  /\ Len(rows) = Len(ids)
        /\ \A i \in 1..Len(ids) :
              /\ rows[i].borrower = borrow_records[ids[i]].borrower
              /\ rows[i].due_date = borrow_records[ids[i]].due_date
              /\ rows[i].overdue_days * MS_PER_DAY <= C5_Current - rows[i].due_date
              /\ C5_Current - rows[i].due_date < (rows[i].overdue_days + 1) * MS_PER_DAY
              /\ rows[i].overdue_days >= 0
              /\ rows[i].fine = rows[i].overdue_days

\* the report was served with a row a day overdue while a returned record with a
\* past due_date is stored
C5_Witness ==
    /\ resp.route = "GET /reports/overdue" /\ resp.status = 200
    /\ \E i \in 1..Len(resp.body.rows) : resp.body.rows[i].overdue_days >= 1
    /\ resp.body.rows = GetReportsOverdue(DB, now).resp.body.rows
    /\ \E r \in DOMAIN borrow_records :
          /\ borrow_records[r].status = "returned"
          /\ borrow_records[r].due_date < C5_Current

\* C6: marking returned a record id that is not stored answers NotFound and leaves
\* the store as it was
C6_ReturnMissingIsNotFound ==
    \A i \in 1..MaxRecords :
        i \notin DOMAIN borrow_records =>
            LET out == PutBorrowRecordsReturn(DB, now, Some(i))
            IN  out.resp.status = 404 /\ out.db = DB

\* the answer that names the duplicate key
IsConflict(r) == r.status \in {400, 409} /\ r.body.text = "Email already exists"

\* C3: no two stored users share an email, and a register or create-user request
\* whose email is already stored answers Conflict and leaves the store as it was
C3_UniqueEmailOrConflict ==
    /\ \A i \in DOMAIN users : \A j \in DOMAIN users :
          i # j => users[i].email # users[j].email
    /\ \A p \in Bodies("POST /register") :
          (\E i \in DOMAIN users : users[i].email = p.email) =>
              LET out == PostRegister(DB, p)
              IN  IsConflict(out.resp) /\ out.db = DB
    /\ \A p \in Bodies("POST /users") :
          (\E i \in DOMAIN users : users[i].email = p.email) =>
              LET out == PostUsers(DB, p)
              IN  IsConflict(out.resp) /\ out.db = DB

\* a token past its expiry
Expired(tok) == (now \div 1000) >= tok.iat + EXPIRES_IN_S

\* headers with no token, with text that is no token, with a token signed by
\* another key, and with an expired token
InvalidHeaders ==
    {NoHeader, Header(<<>>), Header(<<BearerLex>>), Header(<<JunkLex>>),
     Header(<<BearerLex, JunkLex>>)}
    \cup {Header(<<BearerLex, forged(tok)>>) : tok \in tokens}
    \cup {Header(<<forged(tok)>>) : tok \in tokens}
    \cup {Header(<<BearerLex, BearerLex, tok>>) : tok \in tokens}
    \cup {Header(<<BearerLex, tok>>) : tok \in {x \in tokens : Expired(x)}}

\* the four routes the gate leaves open
C4_Open == {"GET /", "POST /register", "POST /login", "GET /reports/overdue"}

\* C4: on every route other than GET /, POST /register, POST /login and
\* GET /reports/overdue, a request with no token, a malformed token, a token signed
\* by another key or an expired token is answered 401 and the store is left as it was
C4_GateRejects ==
    \A route \in Routes \ C4_Open : \A h \in InvalidHeaders :
        \A id \in IdParams(route) : \A p \in Bodies(route) :
            \A out \in {Dispatch(Request(route, h, id, p), DB, now)} :
                out.resp.status = 401 /\ out.db = DB

\* a gated route answered 401 and the token the clients hold has expired
C4_Witness ==
    /\ resp.route \in GatedRoutes /\ resp.status = 401
    /\ resp.body.text = "Invalid token"
    /\ \E tok \in tokens : Expired(tok)

\* C7: every book's copies_available, as GET /books shows it, is a non-negative
\* integer
C7_CopiesNonNegative ==
    LET rows == GetBooks(DB).resp.body.rows
    IN  \A i \in 1..Len(rows) :
            /\ rows[i].copies_available # NULL
            /\ Val(rows[i].copies_available) >= 0

\* C8: no row of any response carries a password or a password hash
C8_NoPasswordInResponse ==
    \A i \in 1..Len(resp.body.rows) :
        "password" \in DOMAIN resp.body.rows[i] => resp.body.rows[i].password = NULL

\* C9: on every gated route, two requests that differ only in the role their token
\* carries get the same answer and leave the same store
C9_RoleBlind ==
    \A tok \in tokens : \A route \in GatedRoutes :
        \A id \in IdParams(route) : \A p \in Bodies(route) :
            \A base \in {Dispatch(Request(route, Header(<<BearerLex, tok>>), id, p),
                                  DB, now)} :
                \A r \in Roles :
                    Dispatch(Request(route, Header(<<BearerLex, [tok EXCEPT !.role = r]>>),
                                     id, p), DB, now) = base

\* a gated route was served for a token that is still valid
C9_Witness ==
    /\ resp.route \in GatedRoutes /\ resp.status = 200
    /\ \E tok \in tokens : ~Expired(tok)
    /\ DOMAIN borrow_records # {}

\* a token that went through logout and has not expired passes the gate of every
\* gated route
C10_StillAccepted ==
    \A tok \in loggedOut :
        ~Expired(tok) =>
            \A route \in GatedRoutes : \A id \in IdParams(route) : \A p \in Bodies(route) :
                Dispatch(Request(route, Header(<<BearerLex, tok>>), id, p),
                         DB, now).resp.status # 401

\* a step that serves a logout leaves every collection as it was
C10_LogoutWritesNothing ==
    resp'.route = "POST /logout" =>
        UNCHANGED <<users, books, borrow_records, stats_history, seq, pending>>

\* C10: a token presented at a successful logout is accepted by every gated route
\* until it expires, and a logout changes nothing in the store
C10_LogoutKeepsToken == [](C10_StillAccepted) /\ [][C10_LogoutWritesNothing]_vars

\* after a logout with the only token the clients hold, at a later time, a gated
\* route other than logout was served
C10_Witness ==
    /\ loggedOut # {} /\ loggedOut = tokens
    /\ \E tok \in loggedOut : ~Expired(tok) /\ tok.iat * 1000 < now
    /\ resp.route \in GatedRoutes \ {"POST /logout"} /\ resp.status = 200

\* no two rows of stats_history carry the same day
C11_OneRowPerDay ==
    \A i \in 1..Len(stats_history) : \A j \in 1..Len(stats_history) :
        i # j => stats_history[i].date # stats_history[j].date

\* a step in which a recompute's write succeeds leaves the row of its day holding
\* its counts, and adds no row when the day had one
C11_Overwrites ==
    \A c \in 1..MaxInflight :
        (AtPc(c, StatsRoute, "write") /\ pending'[c] = NULL /\ resp'.status = 200) =>
            LET l == Val(pending[c]).p
            IN  /\ \E i \in 1..Len(stats_history') : stats_history'[i] = StatsRowOf(l)
                /\ (\E i \in 1..Len(stats_history) : stats_history[i].date = l.today)
                       => Len(stats_history') = Len(stats_history)

\* C11: after any recomputes, two running concurrently on one day included,
\* stats_history holds at most one row per calendar day, and a recompute on a day
\* that has a row overwrites that row instead of adding a second one
C11_UpsertPerDay == [](C11_OneRowPerDay) /\ [][C11_Overwrites]_vars

\* on the second day two recomputes ran concurrently, neither found a row, and the
\* unique index refused the insert of the later one
C11_Witness ==
    /\ resp.route = StatsRoute /\ resp.status = 500
    /\ Len(stats_history) = 2
    /\ \E i \in 1..Len(stats_history) : stats_history[i].date = DateOf(now)

\* C12: a stored record changes only when its return_date goes from null to a date,
\* and a return_date that is set keeps its value
C12_ReturnDateSetOnce ==
    [][\A r \in DOMAIN borrow_records \cap DOMAIN borrow_records' :
          /\ borrow_records'[r] # borrow_records[r] =>
                 /\ IsNull(borrow_records[r].return_date)
                 /\ ~IsNull(borrow_records'[r].return_date)
          /\ ~IsNull(borrow_records[r].return_date) =>
                 borrow_records'[r].return_date = borrow_records[r].return_date]_vars

\* a step in which the store applies a suspended return to a record that is already
\* returned answers 200 and leaves the record returned with the date of this write
C14_RepeatOverwrites ==
    \A c \in 1..MaxInflight :
        (/\ AtPc(c, ReturnRoute, "update") /\ pending'[c] = NULL
         /\ castOk(Val(pending[c]).id)
         /\ Val(Val(pending[c]).id) \in DOMAIN borrow_records
         /\ borrow_records[Val(Val(pending[c]).id)].status = "returned") =>
            LET r == Val(Val(pending[c]).id)
                l == Val(pending[c]).p
                written == IF variant = "mongo" THEN l.t ELSE (now \div MS_PER_DAY) * MS_PER_DAY
            IN  /\ resp'.route = ReturnRoute /\ resp'.status = 200
                /\ r \in DOMAIN borrow_records'
                /\ borrow_records'[r].status = "returned"
                /\ borrow_records'[r].return_date = Some(written)
                /\ resp'.body.rows = <<RecordRow(r, borrow_records'[r])>>

\* C14: a return of a record that is already returned, after an earlier return or
\* concurrently with one, is not rejected: the call succeeds, the record stays
\* returned, and return_date holds what the last write wrote
C14_LastWriteWins == [][C14_RepeatOverwrites]_vars

\* a return of a record succeeded while another return of the same record, begun
\* before it finished, is suspended and will write a different date
C14_Witness ==
    /\ resp.route = ReturnRoute /\ resp.status = 200 /\ Len(resp.body.rows) = 1
    /\ \E c \in 1..MaxInflight :
          /\ AtPc(c, ReturnRoute, "update")
          /\ Val(pending[c]).id = Some(resp.body.rows[1].record_id)
          /\ resp.body.rows[1].record_id \in DOMAIN borrow_records
          /\ borrow_records[resp.body.rows[1].record_id].status = "returned"
          /\ borrow_records[resp.body.rows[1].record_id].return_date
                 # Some(IF variant = "mongo" THEN Val(pending[c]).p.t
                                             ELSE (now \div MS_PER_DAY) * MS_PER_DAY)

\* the number of borrow records, borrowed or returned, that reference book b
C13_Refs(b) == Cardinality({r \in DOMAIN borrow_records : borrow_records[r].book_id = b})

\* C13: GET /reports/most-borrowed has at most 10 rows, one per book; borrow_count
\* is the number of records that reference the book; the rows are in non-increasing
\* borrow_count order; no book left out has a larger count than a book that is in,
\* and with fewer than 10 rows no borrowed book is left out
C13_MostBorrowed ==
    LET rows == GetReportsMostBorrowed(DB).resp.body.rows
        incl == {b \in DOMAIN books : \E i \in 1..Len(rows) : rows[i].title = books[b].title}
    IN  /\ Len(rows) <= 10
        /\ \A i \in 1..Len(rows) : \A j \in 1..Len(rows) :
              i # j => rows[i].title # rows[j].title
        /\ \A i \in 1..Len(rows) :
              \E b \in DOMAIN books :
                  books[b].title = rows[i].title /\ rows[i].borrow_count = C13_Refs(b)
        /\ \A i \in 1..Len(rows) : \A j \in 1..Len(rows) :
              i < j => rows[i].borrow_count >= rows[j].borrow_count
        /\ \A b \in DOMAIN books \ incl : \A a \in incl : C13_Refs(b) <= C13_Refs(a)
        /\ Len(rows) < 10 => \A b \in DOMAIN books : C13_Refs(b) >= 1 => b \in incl

\* the report was served with 10 rows of unequal counts while an eleventh borrowed
\* book was left out
C13_Witness ==
    /\ resp.route = "GET /reports/most-borrowed" /\ resp.status = 200
    /\ resp.body.rows = GetReportsMostBorrowed(DB).resp.body.rows
    /\ Len(resp.body.rows) = 10
    /\ resp.body.rows[1].borrow_count > resp.body.rows[10].borrow_count
    /\ \E b \in DOMAIN books :
          /\ C13_Refs(b) >= 1
          /\ \A i \in 1..10 : resp.body.rows[i].title # books[b].title

\* C15: every row of stats_history has overdue_books <= active_borrows
C15_OverdueWithinActive ==
    \A i \in 1..Len(stats_history) :
        stats_history[i].overdue_books <= stats_history[i].active_borrows

====
